---- MODULE Spec2Model ----
(***************************************************************************)
(* Rolling-update failure accounting of apache.aurora.client.api           *)
(* updater_util: UpdaterConfig (validated update parameters) and           *)
(* FailureThreshold (per-instance failure counters and the two strict      *)
(* threshold decisions).                                                   *)
(***************************************************************************)
EXTENDS Integers, Sequences, FiniteSets, TLC

(* ---------------------------------------------------------------------- *)
(* Bounds of the model                                                     *)
(* ---------------------------------------------------------------------- *)

\* longest failed_instances list passed to one update_failure_counts call
MaxBatch == 2

\* cap on the number of recorded occurrences of one instance
MaxFailures == 3

\* largest failure limit / largest UpdaterConfig argument tried
MaxLimit == 2

\* instance identifiers (opaque hashable keys; 2 and 5 are the ones of the
\* end-to-end scenario)
Instances == {2, 5, 7}

\* values tried for max_per_instance_failures and max_total_failures:
\* FailureThreshold.__init__ validates nothing, so negatives are inputs too
Limits == (0 - 1) .. MaxLimit

\* values tried for each argument of UpdaterConfig.__init__
ConfigValues == (0 - 1) .. MaxLimit

RECURSIVE SeqsUpTo(_)
SeqsUpTo(n) ==
  IF n = 0 THEN {<<>>}
  ELSE LET shorter == SeqsUpTo(n - 1)
       IN  shorter \cup {Append(s, i) : s \in shorter, i \in Instances}

\* the failed_instances arguments tried
Batches == SeqsUpTo(MaxBatch)

Range(s) == {s[k] : k \in 1 .. Len(s)}

\* number of occurrences of instance i in the list s
Occurrences(s, i) == Cardinality({k \in 1 .. Len(s) : s[k] = i})

(* ---------------------------------------------------------------------- *)
(* State                                                                   *)
(* ---------------------------------------------------------------------- *)

VARIABLES
  max_per_instance_failures,  \* FailureThreshold._max_per_instance_failures
  max_total_failures,         \* FailureThreshold._max_total_failures
  failures_by_instance,       \* FailureThreshold._failures_by_instance
  op,                         \* the call that produced this state
  arg,                        \* failed_instances of the last update_failure_counts
  returned,                   \* list returned by the last update_failure_counts
  is_failed,                  \* boolean returned by the last is_failed_update
  logged,                     \* log.error output of the last is_failed_update
  recorded,                   \* history: occurrences reported so far, per instance
  scenario,                   \* history: progress through the end-to-end scenario
  config,                     \* the UpdaterConfig object last constructed, if any
  error,                      \* message of the ValueError last raised, if any
  returned_so_far,            \* history: instances in some returned value so far
  verdict,                    \* history: "none" until is_failed_update returns
                              \* true, then "failed", then "failed_then_recorded"
                              \* once a later update_failure_counts has run
  callers,                    \* position of each concurrent caller in its call
  overlapped                  \* history: a call began while another was running

vars == <<max_per_instance_failures, max_total_failures, failures_by_instance,
          op, arg, returned, is_failed, logged, recorded, scenario,
          config, error, returned_so_far, verdict, callers, overlapped>>

\* the threads that may call into one accountant
Callers == {"a", "b"}

\* a caller that is not inside a call
Idle == [pc |-> "idle", batch |-> <<>>, failed_instances |-> <<>>,
         loaded |-> 0, exceeded |-> <<>>]

NoCalls == [c \in Callers |-> Idle]

\* collections.defaultdict(int) with no key
EmptyCounts == [i \in {} |-> 0]

NoLog == [header |-> <<>>, lines |-> {}]

NoConfig == [constructed |-> FALSE]

NoError == ""

(* ---------------------------------------------------------------------- *)
(* UpdaterConfig                                                           *)
(* ---------------------------------------------------------------------- *)

BatchSizeError == "Batch size should be greater than 0"
RestartThresholdError == "Restart Threshold should be greater than 0"
WatchSecsError == "Watch seconds should be greater than 0"

\* UpdaterConfigInit with "<" written for "<=" in the three checks
UpdaterConfigInitAcceptsZero(batch_size, restart_threshold, watch_secs, max_per_shard_failures, max_total) ==
  IF batch_size < 0 THEN
    [raised |-> TRUE, message |-> BatchSizeError, object |-> NoConfig]
  ELSE IF restart_threshold < 0 THEN
    [raised |-> TRUE, message |-> RestartThresholdError, object |-> NoConfig]
  ELSE IF watch_secs < 0 THEN
    [raised |-> TRUE, message |-> WatchSecsError, object |-> NoConfig]
  ELSE
    [raised |-> FALSE, message |-> NoError,
     object |-> [constructed |-> TRUE,
                 batch_size |-> batch_size,
                 restart_threshold |-> restart_threshold,
                 watch_secs |-> watch_secs,
                 max_total_failures |-> max_total,
                 max_per_instance_failures |-> max_per_shard_failures]]

\* UpdaterConfig.__init__: the three checks in their order, then the five
\* assignments; a raise leaves no object behind
UpdaterConfigInit(batch_size, restart_threshold, watch_secs, max_per_shard_failures, max_total) ==
  IF batch_size <= 0 THEN
    [raised |-> TRUE, message |-> BatchSizeError, object |-> NoConfig]
  ELSE IF restart_threshold <= 0 THEN
    [raised |-> TRUE, message |-> RestartThresholdError, object |-> NoConfig]
  ELSE IF watch_secs <= 0 THEN
    [raised |-> TRUE, message |-> WatchSecsError, object |-> NoConfig]
  ELSE
    [raised |-> FALSE, message |-> NoError,
     object |-> [constructed |-> TRUE,
                 batch_size |-> batch_size,
                 restart_threshold |-> restart_threshold,
                 watch_secs |-> watch_secs,
                 max_total_failures |-> max_total,
                 max_per_instance_failures |-> max_per_shard_failures]]

(* ---------------------------------------------------------------------- *)
(* FailureThreshold                                                        *)
(* ---------------------------------------------------------------------- *)

\* Increment with "= 1" written for "+= 1"
IncrementAssigns(counts, instance) ==
  [j \in DOMAIN counts \cup {instance} |->
     IF j = instance THEN 1 ELSE counts[j]]

\* self._failures_by_instance[instance] += 1 on a defaultdict(int): a missing
\* key is created at int() = 0 and then incremented
Increment(counts, instance) ==
  IF instance \in DOMAIN counts
  THEN [counts EXCEPT ![instance] = @ + 1]
  ELSE [j \in DOMAIN counts \cup {instance} |->
          IF j = instance THEN 0 + 1 ELSE counts[j]]

\* ExceedsLimit with ">=" written for ">"
ExceedsLimitOrEqual(count, max_per) == count >= max_per

\* the test of line 56: the strict comparison of a counter with the limit
ExceedsLimit(count, max_per) == count > max_per

\* the for loop of update_failure_counts
RECURSIVE UpdateLoop(_, _, _, _)
UpdateLoop(counts, max_per, failed_instances, exceeded_failure_count_instances) ==
  IF failed_instances = <<>>
  THEN [counts |-> counts, ret |-> exceeded_failure_count_instances]
  ELSE LET instance == Head(failed_instances)
           incremented == Increment(counts, instance)
       IN  UpdateLoop(incremented, max_per, Tail(failed_instances),
                      IF ExceedsLimit(incremented[instance], max_per)
                      THEN Append(exceeded_failure_count_instances, instance)
                      ELSE exceeded_failure_count_instances)

\* the distinct elements of a list, in order of first occurrence
RECURSIVE DistinctOf(_, _)
DistinctOf(s, seen) ==
  IF s = <<>> THEN <<>>
  ELSE IF Head(s) \in seen THEN DistinctOf(Tail(s), seen)
  ELSE <<Head(s)>> \o DistinctOf(Tail(s), seen \cup {Head(s)})

\* the elements of a set of integers as an ascending list
RECURSIVE Ascending(_)
Ascending(S) ==
  IF S = {} THEN <<>>
  ELSE LET least == CHOOSE x \in S : \A y \in S : x <= y
       IN  <<least>> \o Ascending(S \ {least})

\* update_failure_counts iterating over set(failed_instances): one increment
\* per distinct instance of the call
update_failure_counts_distinct(counts, max_per, failed_instances) ==
  UpdateLoop(counts, max_per, DistinctOf(failed_instances, {}), <<>>)

\* update_failure_counts returning every instance of the map that is over
\* the limit after the increments
update_failure_counts_all(counts, max_per, failed_instances) ==
  LET result == UpdateLoop(counts, max_per, failed_instances, <<>>)
  IN  [counts |-> result.counts,
       ret |-> Ascending({i \in DOMAIN result.counts :
                            result.counts[i] > max_per})]

\* update_failure_counts returning list(set(...)) of the over-limit
\* instances of the call: each identifier once
update_failure_counts_set(counts, max_per, failed_instances) ==
  LET result == UpdateLoop(counts, max_per, failed_instances, <<>>)
  IN  [counts |-> result.counts, ret |-> DistinctOf(result.ret, {})]

\* FailureThreshold.update_failure_counts: the counters after the call and
\* the returned list
update_failure_counts(counts, max_per, failed_instances) ==
  UpdateLoop(counts, max_per, failed_instances, <<>>)

\* exceeded_instance_fail_count with ">=" written for ">"
exceeded_instance_fail_count_or_equal(counts, max_per) ==
  Cardinality({i \in DOMAIN counts : counts[i] >= max_per})

\* exceeded_instance_fail_count looking every instance up in the defaultdict
\* (a missing key reads as 0) instead of walking the stored values
exceeded_instance_fail_count_lookup(counts, max_per) ==
  Cardinality({i \in Instances :
                 (IF i \in DOMAIN counts THEN counts[i] ELSE 0) > max_per})

\* FailureThreshold._exceeded_instance_fail_count: sum of the booleans
\* count > limit over the values of the map
exceeded_instance_fail_count(counts, max_per) ==
  Cardinality({i \in DOMAIN counts : counts[i] > max_per})

\* is_failed_update with ">=" written for ">" in the total comparison
is_failed_update_or_equal(counts, max_per, max_total) ==
  LET total_failed_instances == exceeded_instance_fail_count(counts, max_per)
      failed == total_failed_instances >= max_total
  IN  [ret |-> failed,
       log |-> IF failed
               THEN [header |-> <<total_failed_instances, max_total>>,
                     lines |-> {<<counts[i], i, max_per>> :
                                  i \in {j \in DOMAIN counts : counts[j] > max_per}}]
               ELSE NoLog,
       counts |-> counts]

\* is_failed_update dropping from the map the instances it reports
is_failed_update_discards(counts, max_per, max_total) ==
  LET total_failed_instances == exceeded_instance_fail_count(counts, max_per)
      failed == total_failed_instances > max_total
      reported == {j \in DOMAIN counts : counts[j] > max_per}
  IN  [ret |-> failed,
       log |-> IF failed
               THEN [header |-> <<total_failed_instances, max_total>>,
                     lines |-> {<<counts[i], i, max_per>> : i \in reported}]
               ELSE NoLog,
       counts |-> IF failed
                  THEN [i \in DOMAIN counts \ reported |-> counts[i]]
                  ELSE counts]

\* FailureThreshold.is_failed_update: the boolean, the log.error lines and
\* the counters it leaves.  The per-instance lines follow dict iteration
\* order, which the language does not fix: they are kept as a set.
is_failed_update(counts, max_per, max_total) ==
  LET total_failed_instances == exceeded_instance_fail_count(counts, max_per)
      failed == total_failed_instances > max_total
  IN  [ret |-> failed,
       log |-> IF failed
               THEN [header |-> <<total_failed_instances, max_total>>,
                     lines |-> {<<counts[i], i, max_per>> :
                                  i \in {j \in DOMAIN counts : counts[j] > max_per}}]
               ELSE NoLog,
       counts |-> counts]

\* end-to-end scenario: batches [2, 5], [2], [5] on a fresh accountant;
\* 0..3 is the number of scenario batches recorded so far, OffScenario any
\* other history
OffScenario == 0 - 1

ScenarioStep(step, failed_instances) ==
  IF step = 0 /\ failed_instances = <<2, 5>> THEN 1
  ELSE IF step = 1 /\ failed_instances = <<2>> THEN 2
  ELSE IF step = 2 /\ failed_instances = <<5>> THEN 3
  ELSE OffScenario

(* ---------------------------------------------------------------------- *)
(* Specification of the accountant                                         *)
(* ---------------------------------------------------------------------- *)

\* FailureThreshold.__init__ with any two limits; no UpdaterConfig built
Init ==
  /\ max_per_instance_failures \in Limits
  /\ max_total_failures \in Limits
  /\ failures_by_instance = EmptyCounts
  /\ op = "__init__"
  /\ arg = <<>>
  /\ returned = <<>>
  /\ is_failed = FALSE
  /\ logged = NoLog
  /\ recorded = [i \in Instances |-> 0]
  /\ scenario = 0
  /\ config = NoConfig
  /\ error = NoError
  /\ returned_so_far = {}
  /\ verdict = "none"
  /\ callers = NoCalls
  /\ overlapped = FALSE

\* one call of update_failure_counts(failed_instances)
UpdateFailureCounts(failed_instances) ==
  LET result == update_failure_counts(failures_by_instance,
                                      max_per_instance_failures,
                                      failed_instances)
  IN  /\ \A i \in Instances :
           recorded[i] + Occurrences(failed_instances, i) <= MaxFailures
      /\ failures_by_instance' = result.counts
      /\ returned' = result.ret
      /\ op' = "update_failure_counts"
      /\ arg' = failed_instances
      /\ is_failed' = FALSE
      /\ logged' = NoLog
      /\ recorded' = [i \in Instances |->
                        recorded[i] + Occurrences(failed_instances, i)]
      /\ scenario' = ScenarioStep(scenario, failed_instances)
      /\ returned_so_far' = returned_so_far \cup Range(result.ret)
      /\ verdict' = (IF verdict = "none" THEN "none"
                     ELSE "failed_then_recorded")
      /\ UNCHANGED <<max_per_instance_failures, max_total_failures,
                     config, error, callers, overlapped>>

\* one call of is_failed_update()
IsFailedUpdate ==
  LET result == is_failed_update(failures_by_instance,
                                 max_per_instance_failures,
                                 max_total_failures)
  IN  /\ failures_by_instance' = result.counts
      /\ is_failed' = result.ret
      /\ logged' = result.log
      /\ op' = "is_failed_update"
      /\ arg' = <<>>
      /\ returned' = <<>>
      /\ verdict' = (IF verdict = "none" /\ result.ret THEN "failed"
                     ELSE verdict)
      /\ UNCHANGED <<max_per_instance_failures, max_total_failures,
                     recorded, scenario, config, error, returned_so_far,
                     callers, overlapped>>

Next ==
  \/ \E failed_instances \in Batches : UpdateFailureCounts(failed_instances)
  \/ IsFailedUpdate

Spec == Init /\ [][Next]_vars

(* ---------------------------------------------------------------------- *)
(* Specification of UpdaterConfig construction                             *)
(* ---------------------------------------------------------------------- *)

InitConfig ==
  /\ max_per_instance_failures = 0
  /\ max_total_failures = 0
  /\ failures_by_instance = EmptyCounts
  /\ op = "__init__"
  /\ arg = <<>>
  /\ returned = <<>>
  /\ is_failed = FALSE
  /\ logged = NoLog
  /\ recorded = [i \in Instances |-> 0]
  /\ scenario = 0
  /\ config = NoConfig
  /\ error = NoError
  /\ returned_so_far = {}
  /\ verdict = "none"
  /\ callers = NoCalls
  /\ overlapped = FALSE

\* one attempt to construct an UpdaterConfig
NewUpdaterConfig(batch_size, restart_threshold, watch_secs, max_per_shard_failures, max_total) ==
  LET result == UpdaterConfigInit(batch_size, restart_threshold, watch_secs,
                                  max_per_shard_failures, max_total)
  IN  /\ config' = result.object
      /\ error' = result.message
      /\ arg' = <<batch_size, restart_threshold, watch_secs,
                  max_per_shard_failures, max_total>>
      /\ op' = "UpdaterConfig"
      /\ UNCHANGED <<max_per_instance_failures, max_total_failures,
                     failures_by_instance, returned, is_failed, logged,
                     recorded, scenario, returned_so_far, verdict, callers,
                     overlapped>>

NextConfig ==
  \E batch_size \in ConfigValues, restart_threshold \in ConfigValues,
     watch_secs \in ConfigValues, max_per_shard_failures \in ConfigValues,
     max_total \in ConfigValues :
    NewUpdaterConfig(batch_size, restart_threshold, watch_secs,
                     max_per_shard_failures, max_total)

SpecConfig == InitConfig /\ [][NextConfig]_vars

(* ---------------------------------------------------------------------- *)
(* Specification of concurrent callers                                     *)
(*                                                                         *)
(* FailureThreshold takes no lock.  Under the interpreter lock a thread    *)
(* can be switched out between the bytecodes of a statement, so the        *)
(* "+= 1" of line 55 is a subscript load, an add and a subscript store,    *)
(* and line 56 reads the map again.  values() and items() copy the map in  *)
(* one step each.                                                          *)
(* ---------------------------------------------------------------------- *)

\* StoreCounter writing 1 whatever was loaded ("= 1" for "+= 1")
StoreCounterAssigns(counts, instance, loaded) ==
  [counts EXCEPT ![instance] = 1]

\* the subscript load of line 55: defaultdict.__missing__ inserts int() = 0
\* for a missing key before the value is returned
LoadCounter(counts, instance) ==
  IF instance \in DOMAIN counts
  THEN [counts |-> counts, value |-> counts[instance]]
  ELSE [counts |-> [j \in DOMAIN counts \cup {instance} |->
                      IF j = instance THEN 0 ELSE counts[j]],
        value |-> 0]

\* the add and the subscript store of line 55
StoreCounter(counts, instance, loaded) ==
  [counts EXCEPT ![instance] = loaded + 1]

\* FailureThreshold.__init__ with any two limits, no caller inside a call
InitThreads == Init

\* number of occurrences reported so far, all instances together
RECURSIVE TotalOf(_, _)
TotalOf(counts, S) ==
  IF S = {} THEN 0
  ELSE LET i == CHOOSE x \in S : TRUE
       IN  counts[i] + TotalOf(counts, S \ {i})

\* caller c enters update_failure_counts(failed_instances): line 53, and the
\* return of line 59 at once when the list is empty
BeginUpdate(c, failed_instances) ==
  /\ callers[c].pc = "idle"
  /\ TotalOf(recorded, Instances) + Len(failed_instances) <= MaxFailures
  /\ recorded' = [i \in Instances |->
                    recorded[i] + Occurrences(failed_instances, i)]
  /\ overlapped' = (overlapped \/ \E d \in Callers \ {c} : callers[d].pc # "idle")
  /\ IF failed_instances = <<>>
     THEN /\ op' = "update_failure_counts"
          /\ arg' = <<>>
          /\ returned' = <<>>
          /\ is_failed' = FALSE
          /\ logged' = NoLog
          /\ UNCHANGED callers
     ELSE /\ callers' = [callers EXCEPT ![c] =
                           [pc |-> "load", batch |-> failed_instances,
                            failed_instances |-> failed_instances,
                            loaded |-> 0, exceeded |-> <<>>]]
          /\ UNCHANGED <<op, arg, returned, is_failed, logged>>
  /\ UNCHANGED <<max_per_instance_failures, max_total_failures,
                 failures_by_instance, scenario, config, error,
                 returned_so_far, verdict>>

\* line 55, first half: caller c reads the counter of the current instance
LoadStep(c) ==
  LET result == LoadCounter(failures_by_instance,
                            Head(callers[c].failed_instances))
  IN  /\ callers[c].pc = "load"
      /\ failures_by_instance' = result.counts
      /\ callers' = [callers EXCEPT ![c].pc = "store",
                                    ![c].loaded = result.value]
      /\ UNCHANGED <<max_per_instance_failures, max_total_failures, op, arg,
                     returned, is_failed, logged, recorded, scenario, config,
                     error, returned_so_far, verdict, overlapped>>

\* line 55, second half: caller c writes the value it read, plus one
StoreStep(c) ==
  /\ callers[c].pc = "store"
  /\ failures_by_instance' = StoreCounter(failures_by_instance,
                                          Head(callers[c].failed_instances),
                                          callers[c].loaded)
  /\ callers' = [callers EXCEPT ![c].pc = "test"]
  /\ UNCHANGED <<max_per_instance_failures, max_total_failures, op, arg,
                 returned, is_failed, logged, recorded, scenario, config,
                 error, returned_so_far, verdict, overlapped>>

\* lines 56-57 for the current instance, then the next iteration or the
\* return of line 59
TestStep(c) ==
  LET instance == Head(callers[c].failed_instances)
      exceeded == IF ExceedsLimit(failures_by_instance[instance],
                                  max_per_instance_failures)
                  THEN Append(callers[c].exceeded, instance)
                  ELSE callers[c].exceeded
      rest == Tail(callers[c].failed_instances)
  IN  /\ callers[c].pc = "test"
      /\ IF rest = <<>>
         THEN /\ op' = "update_failure_counts"
              /\ arg' = callers[c].batch
              /\ returned' = exceeded
              /\ is_failed' = FALSE
              /\ logged' = NoLog
              /\ callers' = [callers EXCEPT ![c] = Idle]
         ELSE /\ callers' = [callers EXCEPT ![c].pc = "load",
                                            ![c].failed_instances = rest,
                                            ![c].exceeded = exceeded]
              /\ UNCHANGED <<op, arg, returned, is_failed, logged>>
      /\ UNCHANGED <<max_per_instance_failures, max_total_failures,
                     failures_by_instance, recorded, scenario, config, error,
                     returned_so_far, verdict, overlapped>>

\* lines 62-63 of is_failed_update in caller c, and the return of line 72
\* when the verdict is false
CountStep(c) ==
  LET total_failed_instances ==
        exceeded_instance_fail_count(failures_by_instance,
                                     max_per_instance_failures)
  IN  /\ callers[c].pc = "idle"
      /\ overlapped' = (overlapped
                        \/ \E d \in Callers \ {c} : callers[d].pc # "idle")
      /\ IF total_failed_instances > max_total_failures
         THEN /\ callers' = [callers EXCEPT ![c].pc = "log",
                                            ![c].loaded = total_failed_instances]
              /\ UNCHANGED <<op, arg, returned, is_failed, logged>>
         ELSE /\ op' = "is_failed_update"
              /\ arg' = <<>>
              /\ returned' = <<>>
              /\ is_failed' = FALSE
              /\ logged' = NoLog
              /\ UNCHANGED callers
      /\ UNCHANGED <<max_per_instance_failures, max_total_failures,
                     failures_by_instance, recorded, scenario, config, error,
                     returned_so_far, verdict>>

\* lines 65-72 of is_failed_update in caller c: the report, read from the
\* map as it is now, and the return of true
LogStep(c) ==
  /\ callers[c].pc = "log"
  /\ op' = "is_failed_update"
  /\ arg' = <<>>
  /\ returned' = <<>>
  /\ is_failed' = TRUE
  /\ logged' = [header |-> <<callers[c].loaded, max_total_failures>>,
                lines |-> {<<failures_by_instance[i], i,
                             max_per_instance_failures>> :
                             i \in {j \in DOMAIN failures_by_instance :
                                      failures_by_instance[j]
                                        > max_per_instance_failures}}]
  /\ callers' = [callers EXCEPT ![c] = Idle]
  /\ UNCHANGED <<max_per_instance_failures, max_total_failures,
                 failures_by_instance, recorded, scenario, config, error,
                 returned_so_far, verdict, overlapped>>

NextThreads ==
  \E c \in Callers :
    \/ \E failed_instances \in Batches : BeginUpdate(c, failed_instances)
    \/ LoadStep(c)
    \/ StoreStep(c)
    \/ TestStep(c)
    \/ CountStep(c)
    \/ LogStep(c)

SpecThreads == InitThreads /\ [][NextThreads]_vars


TypeOK ==
  /\ max_per_instance_failures \in Limits
  /\ max_total_failures \in Limits
  /\ DOMAIN failures_by_instance \subseteq Instances
  /\ \A i \in DOMAIN failures_by_instance :
       failures_by_instance[i] \in 1 .. MaxFailures
  /\ op \in {"__init__", "update_failure_counts", "is_failed_update",
             "UpdaterConfig"}
  /\ is_failed \in BOOLEAN
  /\ recorded \in [Instances -> 0 .. MaxFailures]
  /\ scenario \in {OffScenario, 0, 1, 2, 3}

(* ---------------------------------------------------------------------- *)
(* Properties                                                              *)
(* ---------------------------------------------------------------------- *)

\* the stored counter of instance i, 0 when the map has no such key
CountOf(counts, i) == IF i \in DOMAIN counts THEN counts[i] ELSE 0

\* instances reported at least once whose cumulative number of reported
\* occurrences is strictly greater than the per-instance limit
OverLimit == {i \in Instances : recorded[i] >= 1
                                /\ recorded[i] > max_per_instance_failures}

\* C1: is_failed_update returns true iff the number of distinct instances
\* whose cumulative failure count (the occurrences reported so far) is
\* strictly greater than max_per_instance_failures is strictly greater than
\* max_total_failures.
C1_IsFailedIffTooManyOverLimit ==
  op = "is_failed_update" =>
    (is_failed <=> Cardinality(OverLimit) > max_total_failures)

\* two instances over the limit with max_total_failures = 1: failed
C1_Witness ==
  /\ op = "is_failed_update"
  /\ max_total_failures = 1
  /\ Cardinality(OverLimit) = 2
  /\ is_failed

\* C2 as stated: the value returned by every update_failure_counts call
\* contains every instance whose current cumulative count is strictly
\* greater than max_per_instance_failures, listed in that call or not.
C2_ReturnsEveryOverLimitInstance ==
  op = "update_failure_counts" => OverLimit \subseteq Range(returned)

\* C2 amended: the value returned by an update_failure_counts call contains
\* exactly the instances listed in that call whose cumulative count after
\* the call is strictly greater than max_per_instance_failures; an instance
\* over the limit that the call does not list is not in it.
C2_ReturnsListedOverLimitInstances ==
  op = "update_failure_counts" =>
    Range(returned) = {i \in Range(arg) : recorded[i] > max_per_instance_failures}

\* a call that returns something while an unlisted instance is over the limit
C2_Witness ==
  /\ op = "update_failure_counts"
  /\ returned # <<>>
  /\ \E i \in OverLimit : i \notin Range(arg)

\* C3 : update_failure_counts increments an instance's stored counter by
\* exactly 1 for each occurrence of that instance in failed_instances,
\* duplicates included: every call adds to each counter the number of
\* occurrences of its instance in the list (0 for an instance not listed),
\* and after any sequence of calls each counter equals the number of
\* occurrences reported so far.
C3_CounterCountsOccurrences ==
  /\ [](\A i \in Instances : CountOf(failures_by_instance, i) = recorded[i])
  /\ [][op' = "update_failure_counts" =>
          \A i \in Instances :
            CountOf(failures_by_instance', i)
              = CountOf(failures_by_instance, i) + Occurrences(arg', i)]_vars

\* a call listing one instance twice and not listing a counted one
C3_Witness ==
  /\ op = "update_failure_counts"
  /\ \E i \in Instances : Occurrences(arg, i) = 2
                          /\ CountOf(failures_by_instance, i) = 3
  /\ \E i \in Instances : Occurrences(arg, i) = 0
                          /\ CountOf(failures_by_instance, i) >= 1

\* C4: with a non-negative per-instance limit L the comparison is strict: an
\* instance whose cumulative count is <= L after a call is not in the value
\* that call returns, and the call that takes its count from <= L to above L
\* returns it.
C4_StrictPerInstanceThreshold ==
  [][(op' = "update_failure_counts" /\ max_per_instance_failures >= 0) =>
       \A A \in Instances :
         /\ recorded'[A] <= max_per_instance_failures
              => A \notin Range(returned')
         /\ (recorded[A] <= max_per_instance_failures
             /\ recorded'[A] > max_per_instance_failures)
              => A \in Range(returned')]_vars

\* with L = 1 the second failure of 2 returns it, 5 at count 1 is left out
C4_Witness ==
  /\ op = "update_failure_counts"
  /\ max_per_instance_failures = 1
  /\ recorded[2] = 2 /\ recorded[5] = 1
  /\ arg = <<5, 2>>
  /\ returned = <<2>>

\* C5 as stated: with both limits 1 on a fresh accountant, [2, 5] returns
\* nothing; then [2] returns {2} and is_failed_update is false; then [5]
\* returns {2, 5} and is_failed_update is true.
C5_ScenarioAsStated ==
  (max_per_instance_failures = 1 /\ max_total_failures = 1) =>
    /\ (scenario = 1 /\ op = "update_failure_counts") => returned = <<>>
    /\ (scenario = 2 /\ op = "update_failure_counts") => Range(returned) = {2}
    /\ (scenario = 2 /\ op = "is_failed_update") => ~is_failed
    /\ (scenario = 3 /\ op = "update_failure_counts") => Range(returned) = {2, 5}
    /\ (scenario = 3 /\ op = "is_failed_update") => is_failed

\* C5 amended: as stated, except that the third call returns [5] alone.
C5_ScenarioAmended ==
  (max_per_instance_failures = 1 /\ max_total_failures = 1) =>
    /\ (scenario = 1 /\ op = "update_failure_counts") => returned = <<>>
    /\ (scenario = 2 /\ op = "update_failure_counts") => returned = <<2>>
    /\ (scenario = 2 /\ op = "is_failed_update") => ~is_failed
    /\ (scenario = 3 /\ op = "update_failure_counts") => returned = <<5>>
    /\ (scenario = 3 /\ op = "is_failed_update") => is_failed

\* the end of the scenario: the verdict asked after the third batch
C5_Witness ==
  /\ max_per_instance_failures = 1 /\ max_total_failures = 1
  /\ scenario = 3
  /\ op = "is_failed_update"
  /\ failures_by_instance = (2 :> 2 @@ 5 :> 2)

\* C6: UpdaterConfig construction succeeds iff batch_size > 0,
\* restart_threshold > 0 and watch_secs > 0, whatever the two failure limits,
\* which are stored unchanged; when it fails no object is produced and the
\* error names the first field that is <= 0 in the order batch_size,
\* restart_threshold, watch_secs.
C6_ConfigValidation ==
  op = "UpdaterConfig" =>
    LET batch_size == arg[1]
        restart_threshold == arg[2]
        watch_secs == arg[3]
    IN  /\ config.constructed
             <=> (batch_size > 0 /\ restart_threshold > 0 /\ watch_secs > 0)
        /\ config.constructed =>
             /\ error = NoError
             /\ config.batch_size = batch_size
             /\ config.restart_threshold = restart_threshold
             /\ config.watch_secs = watch_secs
             /\ config.max_per_instance_failures = arg[4]
             /\ config.max_total_failures = arg[5]
        /\ ~config.constructed =>
             /\ config = NoConfig
             /\ error = (IF batch_size <= 0 THEN BatchSizeError
                         ELSE IF restart_threshold <= 0 THEN RestartThresholdError
                         ELSE WatchSecsError)

\* an object built with a zero and a negative failure limit
C6_Witness ==
  /\ op = "UpdaterConfig"
  /\ config.constructed
  /\ config.max_per_instance_failures < 0
  /\ config.max_total_failures = 0

\* C7: update_failure_counts([]) is a no-op in every reachable state: it
\* returns an empty list, leaves the counter map (keys and counts) as it was,
\* and is_failed_update gives the same boolean after it as before it.
C7_EmptyBatchIsNoOp ==
  [][(op' = "update_failure_counts" /\ arg' = <<>>) =>
       /\ returned' = <<>>
       /\ failures_by_instance' = failures_by_instance
       /\ is_failed_update(failures_by_instance', max_per_instance_failures',
                           max_total_failures').ret
            = is_failed_update(failures_by_instance, max_per_instance_failures,
                               max_total_failures).ret]_vars

\* an empty batch recorded while the update counts as failed
C7_Witness ==
  /\ op = "update_failure_counts"
  /\ arg = <<>>
  /\ OverLimit # {}
  /\ is_failed_update(failures_by_instance, max_per_instance_failures,
                      max_total_failures).ret

\* C8: one call update_failure_counts([A, A]) adds 2 to A's counter and
\* leaves the accountant as two calls update_failure_counts([A]) from the
\* same state do: same counters, same is_failed_update result, and the
\* instances in its returned value are those in the value returned by the
\* second of the two calls.
C8_DoubleEqualsTwoSingles ==
  [][\A A \in Instances :
       (op' = "update_failure_counts" /\ arg' = <<A, A>>) =>
         LET first == update_failure_counts(failures_by_instance,
                                            max_per_instance_failures, <<A>>)
             second == update_failure_counts(first.counts,
                                             max_per_instance_failures, <<A>>)
         IN  /\ CountOf(failures_by_instance', A)
                  = CountOf(failures_by_instance, A) + 2
             /\ failures_by_instance' = second.counts
             /\ Range(returned') = Range(second.ret)
             /\ is_failed_update(failures_by_instance',
                                 max_per_instance_failures,
                                 max_total_failures).ret
                  = is_failed_update(second.counts,
                                     max_per_instance_failures,
                                     max_total_failures).ret]_vars

\* a double report of an instance already counted, over the limit at both
\* of its occurrences
C8_Witness ==
  /\ op = "update_failure_counts"
  /\ arg = <<5, 5>>
  /\ returned = <<5, 5>>
  /\ failures_by_instance[5] = 3

\* C9: is_failed_update never changes the accountant: the counter map and
\* both limits are the same after the call as before it, whether it returns
\* true or false, and a call that directly follows another call of
\* is_failed_update returns the same boolean.
C9_IsFailedUpdateIsPure ==
  [][op' = "is_failed_update" =>
       /\ failures_by_instance' = failures_by_instance
       /\ max_per_instance_failures' = max_per_instance_failures
       /\ max_total_failures' = max_total_failures
       /\ op = "is_failed_update" => is_failed' = is_failed]_vars

\* a call that returned true and reported two instances
C9_Witness ==
  /\ op = "is_failed_update"
  /\ is_failed
  /\ Cardinality(logged.lines) = 2
  /\ failures_by_instance # EmptyCounts

\* C10: a counter starts from zero on the first reference to its instance
\* and never goes down: no call lowers a counter, resets it or removes a key
\* from the map.
C10_CountersNeverDecrease ==
  [][/\ \A i \in DOMAIN failures_by_instance :
          /\ i \in DOMAIN failures_by_instance'
          /\ failures_by_instance'[i] >= failures_by_instance[i]
     /\ \A i \in DOMAIN failures_by_instance' \ DOMAIN failures_by_instance :
          failures_by_instance'[i] = 0 + Occurrences(arg', i)]_vars

\* a first reference to one instance next to a counter that moved up
C10_Witness ==
  /\ op = "update_failure_counts"
  /\ \E i \in Range(arg) : failures_by_instance[i] = 1
  /\ \E i \in Range(arg) : failures_by_instance[i] = 3

\* C11: an instance with zero recorded failures never appears in either
\* threshold calculation, whatever the limits (negative ones included): it
\* is in no returned value and is not counted by is_failed_update, whose
\* count is that of the over-limit instances reported at least once; every
\* key of the counter map has a count >= 1.
C11_UnreportedInstancesNeverCount ==
  /\ \A i \in DOMAIN failures_by_instance : failures_by_instance[i] >= 1
  /\ \A i \in Instances :
       recorded[i] = 0 =>
         /\ i \notin DOMAIN failures_by_instance
         /\ i \notin Range(returned)
         /\ \A line \in logged.lines : line[2] # i
  /\ exceeded_instance_fail_count(failures_by_instance,
                                  max_per_instance_failures)
       = Cardinality(OverLimit)
  /\ (op = "is_failed_update" /\ is_failed) =>
       logged.header[1] = Cardinality(OverLimit)

\* a negative per-instance limit, a failed verdict and an instance that was
\* never reported
C11_Witness ==
  /\ op = "is_failed_update"
  /\ max_per_instance_failures < 0
  /\ is_failed
  /\ logged.header = <<1, 0>>
  /\ \E i \in Instances : recorded[i] = 0

\* C12 as stated: with a negative max_per_instance_failures or a negative
\* max_total_failures, is_failed_update returns true in every reachable
\* state, the freshly constructed one included.
C12_NegativeLimitAlwaysFails ==
  (op = "is_failed_update"
   /\ (max_per_instance_failures < 0 \/ max_total_failures < 0))
    => is_failed

\* C12 amended: with a negative max_total_failures is_failed_update returns
\* true in every reachable state, the fresh one included; with a negative
\* max_per_instance_failures every instance reported at least once is over
\* its limit, and is_failed_update returns true iff the number of instances
\* reported at least once is greater than max_total_failures (so it is
\* false on a fresh accountant when max_total_failures >= 0).
C12_NegativeLimitAmended ==
  op = "is_failed_update" =>
    /\ max_total_failures < 0 => is_failed
    /\ max_per_instance_failures < 0 =>
         (is_failed <=>
            Cardinality({i \in Instances : recorded[i] >= 1})
              > max_total_failures)

\* negative per-instance limit, one instance reported, total limit 1: the
\* verdict is false
C12_Witness ==
  /\ op = "is_failed_update"
  /\ max_per_instance_failures < 0
  /\ max_total_failures = 1
  /\ Cardinality({i \in Instances : recorded[i] >= 1}) = 1
  /\ ~is_failed

\* C14 as stated: the returned value is a set: each instance identifier is
\* in it at most once, even when failed_instances repeats it.
C14_ReturnedHasNoDuplicates ==
  op = "update_failure_counts" =>
    \A i \in Instances : Occurrences(returned, i) <= 1

\* C14 amended: the returned value is a list holding an instance once for
\* each of its occurrences in failed_instances at which its count is over
\* the limit: never more often than failed_instances lists it, and at most
\* once when failed_instances lists it once.
C14_ReturnedOncePerOverLimitOccurrence ==
  op = "update_failure_counts" =>
    \A i \in Instances :
      LET listed == Occurrences(arg, i)
          previous == recorded[i] - listed
      IN  /\ Occurrences(returned, i)
               = Cardinality({k \in 1 .. listed :
                                previous + k > max_per_instance_failures})
          /\ Occurrences(returned, i) <= listed

\* [7, 7] with limit 0 on an instance not yet reported: 7 is returned twice
C14_Witness ==
  /\ op = "update_failure_counts"
  /\ max_per_instance_failures = 0
  /\ arg = <<7, 7>>
  /\ recorded[7] = 2
  /\ returned = <<7, 7>>

\* the instances of the map whose stored count is over the per-instance limit
StoredOverLimit ==
  {i \in DOMAIN failures_by_instance :
     failures_by_instance[i] > max_per_instance_failures}

\* C15: the verdict latches: once is_failed_update has returned true it
\* returns true in every later call, whatever calls came in between, and
\* the set of over-limit instances never shrinks.
C15_VerdictLatches ==
  /\ []((verdict # "none" /\ op = "is_failed_update") => is_failed)
  /\ [][StoredOverLimit \subseteq StoredOverLimit']_vars

\* a true verdict repeated after further failures were recorded since the
\* first one
C15_Witness ==
  /\ verdict = "failed_then_recorded"
  /\ op = "is_failed_update"
  /\ is_failed
  /\ logged.header = <<3, 1>>
  /\ max_per_instance_failures = 1

\* C16: in every reachable state the instances that have been in the
\* returned value of at least one update_failure_counts call are exactly the
\* instances whose stored count exceeds max_per_instance_failures, so
\* is_failed_update returns true exactly when more than max_total_failures
\* distinct instances have been returned.
C16_ReturnedSoFarIsOverLimit ==
  /\ returned_so_far = StoredOverLimit
  /\ op = "is_failed_update" =>
       (is_failed <=> Cardinality(returned_so_far) > max_total_failures)

\* two instances returned by different calls, one still under the limit, and
\* a failed verdict
C16_Witness ==
  /\ op = "is_failed_update"
  /\ is_failed
  /\ returned_so_far = {2, 5}
  /\ recorded[7] = 1
  /\ max_per_instance_failures = 1

\* no caller is inside a call
AllIdle == \A c \in Callers : callers[c].pc = "idle"

\* caller d is inside update_failure_counts with some but not all of the
\* increments of its list stored
PartiallyApplied(d) ==
  LET stored == Len(callers[d].batch) - Len(callers[d].failed_instances)
                + (IF callers[d].pc = "test" THEN 1 ELSE 0)
  IN  /\ callers[d].pc \in {"load", "store", "test"}
      /\ 0 < stored
      /\ stored < Len(callers[d].batch)

\* this step is the count of lines 62-63 by some caller
IsCountStep ==
  \E c \in Callers :
    /\ callers[c].pc = "idle"
    /\ \/ callers'[c].pc = "log"
       \/ (callers' = callers /\ op' = "is_failed_update" /\ ~is_failed')

\* C13 as stated: with concurrent callers the mutation and the read are
\* serialized: once all calls have finished each counter equals the number
\* of reported occurrences, and is_failed_update never counts while a batch
\* is partially applied.
C13_CallsAreSerialized ==
  /\ [](AllIdle => \A i \in Instances :
                     CountOf(failures_by_instance, i) = recorded[i])
  /\ [][IsCountStep => ~(\E d \in Callers : PartiallyApplied(d))]_vars

\* C13 amended: the accountant takes no lock.  Calls that do not overlap in
\* time lose no increment (once they have finished each counter equals the
\* number of reported occurrences); when calls overlap a counter is never
\* higher than the number of reported occurrences of its instance but can
\* be lower.
C13_OnlyNonOverlappingCallsAreExact ==
  /\ \A i \in Instances : CountOf(failures_by_instance, i) <= recorded[i]
  /\ (AllIdle /\ ~overlapped) =>
       \A i \in Instances : CountOf(failures_by_instance, i) = recorded[i]

\* two overlapping calls have finished and an increment is lost
C13_Witness ==
  /\ AllIdle
  /\ overlapped
  /\ op = "update_failure_counts"
  /\ recorded[2] = 2
  /\ CountOf(failures_by_instance, 2) = 1

====
